---- MODULE Spec2Model ----
(***************************************************************************)
(* Model of the AI Travel Planner (src/app.py): the Streamlit session      *)
(* state, the retry-wrapped model call, preference extraction, the         *)
(* slot-filling question selection and the itinerary generation turn.      *)
(*                                                                         *)
(* JSON values are represented by their literal text: "null" is None,      *)
(* "[]" the empty list, "" the empty string, anything else a non-empty     *)
(* string or list.  A model response is a sequence of tokens; WS is a run  *)
(* of whitespace, FENCE the three backticks, TAG the word json, and every  *)
(* other token is a JSON document or a piece of prose.                     *)
(***************************************************************************)
EXTENDS Integers, Sequences, FiniteSets, TLC

\* ---------------------------------------------------------------- bounds
\* A script run that appends to the chat is taken only while the chat
\* history holds fewer than MaxHistory messages.
MaxHistory == 5

\* ------------------------------------------------------------ JSON values
None == "null"
EmptyList == "[]"
EmptyStr == ""

\* Python truthiness of a JSON value (bool(v)).
Truthy(v) == v \notin {None, EmptyList, EmptyStr, "0", "false"}

\* ------------------------------------------------------------------ slots
\* The keys of st.session_state.user_preferences, in insertion order.
SlotKeys == <<"budget", "duration", "destination", "starting_location",
              "purpose", "preferences", "dietary_restrictions",
              "mobility_concerns", "accommodation_preferences">>

Slots == {SlotKeys[i] : i \in 1..Len(SlotKeys)}

\* Priority order for questions.
priority_fields == <<"budget", "duration", "destination", "starting_location",
                     "purpose", "preferences", "accommodation_preferences",
                     "dietary_restrictions", "mobility_concerns">>

\* The four slots both completeness checks and the missing list name.
required_fields == <<"budget", "duration", "destination", "starting_location">>

\* The two keys extract_preferences normalises.
list_keys == {"preferences", "dietary_restrictions"}

\* The session's user_preferences as first created.
InitialPreferences ==
  [k \in Slots |-> IF k \in list_keys THEN EmptyList ELSE None]

\* The mapping of fields to conversational questions (texts abbreviated).
questions ==
  [k \in Slots |->
     CASE k = "budget" -> "Could you tell me your budget?"
       [] k = "duration" -> "How long would you like to take for this journey?"
       [] k = "destination" -> "Is there a particular place you've been dreaming of visiting?"
       [] k = "starting_location" -> "Where will you be starting your journey from?"
       [] k = "purpose" -> "What's the main purpose of your trip?"
       [] k = "preferences" -> "What kinds of activities interest you most?"
       [] k = "dietary_restrictions" -> "Do you have any dietary preferences or restrictions?"
       [] k = "mobility_concerns" -> "Do you have any mobility concerns?"
       [] OTHER -> "What type of accommodation would you prefer?"]

\* k.replace('_', ' ').title()
Title(k) ==
  CASE k = "budget" -> "Budget"
    [] k = "duration" -> "Duration"
    [] k = "destination" -> "Destination"
    [] k = "starting_location" -> "Starting Location"
    [] OTHER -> k

\* --------------------------------------------------------- user utterances
\* An utterance is a sequence of space-separated words.
Utterances ==
  { <<>>,
    <<"Goa", "$500">>,
    <<"from", "Delhi">>,
    <<"Generate", "itinerary">>,
    <<"please", "explain">> }

\* str.lower() of one word.
Lower(w) ==
  CASE w = "Goa" -> "goa"
    [] w = "Delhi" -> "delhi"
    [] w = "Generate" -> "generate"
    [] OTHER -> w

\* The intent words.
intent_words == {"itinerary", "plan", "create", "generate", "show"}

\* The intent words that occur as substrings of a lower-case word.  (No
\* intent word contains a space, so an occurrence in the utterance lies
\* inside one of its words.)
SubstringsOf(w) ==
  CASE w = "generate" -> {"generate"}
    [] w = "itinerary" -> {"itinerary"}
    [] w = "explain" -> {"plan"}
    [] OTHER -> {}

\* any(word in user_input.lower() for word in [...])
WantsItinerary(u) ==
  \E i \in 1..Len(u) : SubstringsOf(Lower(u[i])) \cap intent_words # {}

\* ------------------------------------------------------- model responses
WS == " "
FENCE == "<fence>"
TAG == "json"

\* JSON documents a response may carry, each one token.
JsonDocs == {"D_goa", "D_paris", "D_trip", "D_stay", "D_empty",
             "D_list", "D_keys", "D_str", "D_num"}

\* The dictionaries among them, as key -> JSON value.
DictItems(d) ==
  CASE d = "D_goa" ->
         [k \in {"destination", "budget"} |->
            IF k = "destination" THEN "Goa" ELSE "$500"]
    [] d = "D_paris" ->
         [k \in {"destination", "budget", "duration", "starting_location",
                 "preferences", "dietary_restrictions"} |->
            CASE k = "destination" -> "Paris"
              [] k = "budget" -> "luxury"
              [] k = "duration" -> "5"
              [] k = "starting_location" -> "Mumbai"
              [] k = "preferences" -> EmptyList
              [] OTHER -> "[vegan]"]
    [] d = "D_trip" ->
         [k \in {"duration", "starting_location", "purpose", "budget"} |->
            CASE k = "duration" -> "3"
              [] k = "starting_location" -> "Delhi"
              [] k = "purpose" -> "fun"
              [] OTHER -> None]
    [] d = "D_stay" ->
         [k \in {"accommodation_preferences", "mobility_concerns",
                 "preferences", "season"} |->
            CASE k = "accommodation_preferences" -> "hotel"
              [] k = "mobility_concerns" -> EmptyList
              [] k = "preferences" -> "[hiking]"
              [] OTHER -> "winter"]
    [] OTHER -> [k \in {} |-> None]

\* What json.loads gives for a document: its Python type, its items when it
\* is a dict, the keys that 'key in value' finds, and its truthiness.
\* D_list is ["x"], D_keys is ["preferences"], D_str is "abc", D_num is 5.
JsonValue(d) ==
  CASE d \in {"D_goa", "D_paris", "D_trip", "D_stay", "D_empty"} ->
         [type |-> "dict", items |-> DictItems(d),
          has |-> DOMAIN DictItems(d), truthy |-> DOMAIN DictItems(d) # {}]
    [] d = "D_list" ->
         [type |-> "list", items |-> DictItems(d), has |-> {}, truthy |-> TRUE]
    [] d = "D_keys" ->
         [type |-> "list", items |-> DictItems(d), has |-> {"preferences"},
          truthy |-> TRUE]
    [] d = "D_str" ->
         [type |-> "str", items |-> DictItems(d), has |-> {}, truthy |-> TRUE]
    [] OTHER ->
         [type |-> "num", items |-> DictItems(d), has |-> {}, truthy |-> TRUE]

\* The result extract_preferences gives when it has nothing to return.
NoPrefs == [type |-> "None", items |-> [k \in {} |-> None], has |-> {},
            truthy |-> FALSE]

\* The texts the model may answer with, whatever the prompt.
Texts ==
  { <<"D_goa">>, <<"D_paris">>, <<"D_trip">>, <<"D_stay">>, <<"D_empty">>,
    <<"D_list">>, <<"D_keys">>, <<"D_str">>, <<"D_num">>,
    <<FENCE, TAG, WS, "D_goa", WS, FENCE>>,
    <<FENCE, WS, "D_goa", WS, FENCE>>,
    <<"D_goa", "D_trip">>,
    <<WS>>,
    <<WS, "Day 1: arrive", WS>>,
    <<"Day 1: arrive">> }

\* One attempt of model.generate_content: it raises, or gives a response
\* whose text may be empty.
Outcomes ==
  {[raises |-> TRUE, text |-> <<>>], [raises |-> FALSE, text |-> <<>>]}
    \cup {[raises |-> FALSE, text |-> t] : t \in Texts}

Raises == [raises |-> TRUE, text |-> <<>>]
NoText == [raises |-> FALSE, text |-> <<>>]

\* The outcomes that may follow failed attempts.
RetryOutcomes ==
  {Raises, NoText, [raises |-> FALSE, text |-> <<"D_goa">>],
   [raises |-> FALSE, text |-> <<WS, "Day 1: arrive", WS>>]}

\* The outcomes of the three attempts one call may make: any outcome at
\* the first attempt, or one or two failed attempts and then the outcome
\* that decides the call.
AttemptSeqs ==
  {<<o, o, o>> : o \in Outcomes}
    \cup {<<Raises, o, o>> : o \in RetryOutcomes}
    \cup {<<NoText, Raises, o>> : o \in RetryOutcomes}

\* str.strip()
RECURSIVE LStrip(_)
LStrip(t) == IF t # <<>> /\ Head(t) = WS THEN LStrip(Tail(t)) ELSE t

RECURSIVE RStrip(_)
RStrip(t) ==
  IF t # <<>> /\ t[Len(t)] = WS THEN RStrip(SubSeq(t, 1, Len(t) - 1)) ELSE t

Strip(t) == RStrip(LStrip(t))

\* if response and response.text
HasText(o) == ~o.raises /\ o.text # <<>>

\* get_ai_response returning the text as the model gave it.
get_ai_response_nostrip(outs) ==
  IF \E i \in 1..3 : HasText(outs[i])
  THEN LET i == CHOOSE j \in 1..3 :
                  HasText(outs[j]) /\ \A m \in 1..(j - 1) : ~HasText(outs[m])
       IN [ok |-> TRUE, text |-> outs[i].text, raw |-> outs[i].text,
           attempts |-> i, error |-> "none"]
  ELSE [ok |-> FALSE, text |-> <<>>, raw |-> <<>>, attempts |-> 3,
        error |-> "Failed to get response from Gemini API after multiple attempts"]

\* get_ai_response giving up after two attempts.
get_ai_response_twice(outs) ==
  IF \E i \in 1..2 : HasText(outs[i])
  THEN LET i == CHOOSE j \in 1..2 :
                  HasText(outs[j]) /\ \A m \in 1..(j - 1) : ~HasText(outs[m])
       IN [ok |-> TRUE, text |-> Strip(outs[i].text), raw |-> outs[i].text,
           attempts |-> i, error |-> "none"]
  ELSE [ok |-> FALSE, text |-> <<>>, raw |-> <<>>, attempts |-> 2,
        error |-> "Failed to get response from Gemini API after multiple attempts"]

\* get_ai_response: up to three attempts, the first attempt with text
\* decides.  ok is FALSE for the None result; raw is the text of the
\* deciding attempt as the model gave it; attempts counts the calls of
\* generate_content; error is the st.error shown.
get_ai_response(outs) ==
  IF \E i \in 1..3 : HasText(outs[i])
  THEN LET i == CHOOSE j \in 1..3 :
                  HasText(outs[j]) /\ \A m \in 1..(j - 1) : ~HasText(outs[m])
       IN [ok |-> TRUE, text |-> Strip(outs[i].text), raw |-> outs[i].text,
           attempts |-> i, error |-> "none"]
  ELSE [ok |-> FALSE, text |-> <<>>, raw |-> <<>>, attempts |-> 3,
        error |-> "Failed to get response from Gemini API after multiple attempts"]

\* The response of a script run that made no get_ai_response call.
NoResponse ==
  [ok |-> FALSE, text |-> <<>>, raw |-> <<>>, attempts |-> 0, error |-> "none"]

\* response.startswith(fence + 'json') / response[7:]
StripOpeningFence(t) ==
  IF Len(t) >= 2 /\ t[1] = FENCE /\ t[2] = TAG THEN SubSeq(t, 3, Len(t)) ELSE t

\* response.endswith(fence) / response[:-3]
StripClosingFence(t) ==
  IF Len(t) >= 1 /\ t[Len(t)] = FENCE THEN SubSeq(t, 1, Len(t) - 1) ELSE t

\* json.loads: one document, whitespace around it allowed; anything else
\* raises.
JsonParses(t) == Len(Strip(t)) = 1 /\ Strip(t)[1] \in JsonDocs

json_loads(t) == JsonValue(Strip(t)[1])

\* "Convert empty lists to None": for a dict, the two list keys are set to
\* None when falsy.
NormalizeLists(prefs) ==
  [prefs EXCEPT !.items =
     [k \in DOMAIN prefs.items |->
        IF k \in list_keys /\ ~Truthy(prefs.items[k]) THEN None
        ELSE prefs.items[k]]]

\* extract_preferences falling back, when the text is not one document, on
\* the first document found in it.
extract_preferences_lenient(response) ==
  IF ~(response.ok /\ response.text # <<>>) THEN NoPrefs
  ELSE LET body == StripClosingFence(StripOpeningFence(Strip(response.text)))
           docs == SelectSeq(body, LAMBDA x : x \in JsonDocs)
       IN IF ~JsonParses(body) /\ docs = <<>> THEN NoPrefs
          ELSE LET prefs == JsonValue(docs[1])
               IN CASE prefs.type = "dict" -> NormalizeLists(prefs)
                    [] prefs.type = "num" -> NoPrefs
                    [] prefs.has \cap list_keys # {} -> NoPrefs
                    [] OTHER -> prefs

\* extract_preferences, given the result of its get_ai_response call.
\* 'key in prefs' raises on a number, and prefs[key] raises on a list or a
\* string that holds the key; every exception gives None.
extract_preferences(response) ==
  IF ~(response.ok /\ response.text # <<>>) THEN NoPrefs
  ELSE LET body == StripClosingFence(StripOpeningFence(Strip(response.text)))
       IN IF ~JsonParses(body) THEN NoPrefs
          ELSE LET prefs == json_loads(body)
               IN CASE prefs.type = "dict" -> NormalizeLists(prefs)
                    [] prefs.type = "num" -> NoPrefs
                    [] prefs.has \cap list_keys # {} -> NoPrefs
                    [] OTHER -> prefs

\* ------------------------------------------------------------ the dialogue
\* The completeness check over all nine slots.
RequiredComplete_all(preferences) ==
  \A k \in Slots : preferences[k] # None

\* all(preferences[k] is not None for k in [the four required slots])
RequiredComplete(preferences) ==
  \A i \in 1..Len(required_fields) : preferences[required_fields[i]] # None

\* missing_fields = [k for k, v in preferences.items() if v is None]
missing_fields(preferences) ==
  {k \in DOMAIN preferences : preferences[k] = None}

\* The index in priority_fields of the field get_next_question picks, 0 when
\* it picks none.
NextIndex(preferences, asked) ==
  LET ok == {i \in 1..Len(priority_fields) :
               /\ priority_fields[i] \in missing_fields(preferences)
               /\ priority_fields[i] \notin asked}
  IN IF ok = {} THEN 0 ELSE CHOOSE i \in ok : \A j \in ok : i <= j

\* get_next_question without the marking of the field as asked.
get_next_question_nomark(preferences, asked) ==
  LET i == NextIndex(preferences, asked)
  IN IF i = 0 THEN [question |-> None, asked |-> asked]
     ELSE [question |-> questions[priority_fields[i]], asked |-> asked]

\* get_next_question: the question returned (None when there is none) and
\* the asked set it leaves.
get_next_question(preferences, asked) ==
  LET i == NextIndex(preferences, asked)
  IN IF i = 0 THEN [question |-> None, asked |-> asked]
     ELSE [question |-> questions[priority_fields[i]],
           asked |-> asked \cup {priority_fields[i]}]

\* The merge without the test for None.
Merge_overwrite(preferences, items) ==
  [k \in DOMAIN preferences \cup DOMAIN items |->
     IF k \in DOMAIN items THEN items[k] ELSE preferences[k]]

\* The merge that starts the store afresh when the destination changes.
Merge_restart(preferences, items) ==
  LET changed == /\ "destination" \in DOMAIN items
                 /\ items["destination"] \notin {None, preferences["destination"]}
  IN [k \in DOMAIN preferences \cup {x \in DOMAIN items : items[x] # None} |->
        IF k \in DOMAIN items /\ items[k] # None THEN items[k]
        ELSE IF changed THEN InitialPreferences[k]
        ELSE preferences[k]]

\* for key, value in extracted_prefs.items(): if value is not None: ...
Merge(preferences, items) ==
  [k \in DOMAIN preferences \cup {x \in DOMAIN items : items[x] # None} |->
     IF k \in DOMAIN items /\ items[k] # None THEN items[k]
     ELSE preferences[k]]

Apology == <<"I apologize, but I couldn't generate the itinerary. Please try again.">>

\* generate_itinerary without the apology for a call that gave no text.
generate_itinerary_noapology(response) == response.text

\* generate_itinerary, given the result of its get_ai_response call.
generate_itinerary(response) ==
  IF response.ok /\ response.text # <<>> THEN response.text ELSE Apology

\* ------------------------------------------------------------ chat messages
UserMsg(u) == [role |-> "user", content |-> u]

QuestionMsg(q) == [role |-> "assistant", content |-> <<q>>]

CreatingMsg == [role |-> "assistant", content |-> <<"I'll create your itinerary now...">>]

ItineraryHeader(destination) ==
  <<"Here's your personalized itinerary for ", destination, ":\n\n">>

ItineraryMsg(destination, itinerary) ==
  [role |-> "assistant", content |-> ItineraryHeader(destination) \o itinerary]

\* The titles of all the required slots.
RECURSIVE MissingTitles_all(_, _)
MissingTitles_all(preferences, i) ==
  IF i > Len(required_fields) THEN <<>>
  ELSE <<Title(required_fields[i])>> \o MissingTitles_all(preferences, i + 1)

\* The titles of the required slots that are None, in order.
RECURSIVE MissingTitles(_, _)
MissingTitles(preferences, i) ==
  IF i > Len(required_fields) THEN <<>>
  ELSE (IF preferences[required_fields[i]] = None
        THEN <<Title(required_fields[i])>> ELSE <<>>)
       \o MissingTitles(preferences, i + 1)

MissingMsg(preferences) ==
  [role |-> "assistant",
   content |-> <<"I still need some essential information before I can create your itinerary: ">>
                 \o MissingTitles(preferences, 1)]

ConfirmMsg(destination) ==
  [role |-> "assistant",
   content |-> <<"Great! I have all the essential information about your trip to ",
                 destination,
                 ". Type 'create itinerary' and I'll generate a detailed plan for you.">>]

\* ------------------------------------------------------------------- state
VARIABLES
  api_key,          \* GOOGLE_API_KEY is set in the environment
  model,            \* 'model' in st.session_state
  chat_history,     \* st.session_state.chat_history
  user_preferences, \* st.session_state.user_preferences
  last_input,       \* st.session_state.last_input (<<>> for None)
  asked_questions,  \* st.session_state.asked_questions
  st_error,         \* the st.error of the last script run
  outcome,          \* how the last script run ended
  branch,           \* the branch of the turn the last script run took
  attempts,         \* generate_content calls made by the last script run
  response,         \* what get_ai_response returned in the last run
  extracted,        \* what extract_preferences returned in the last run
  button,           \* the Generate button was rendered by the last run
  user_input,       \* the text input's value in the last script run
  calls,            \* the get_ai_response calls of the last run, in order
  probe_in,         \* the attempt outcomes given to a call made on its own
  probe_out         \* extract_preferences of the same text without fences

vars == <<api_key, model, chat_history, user_preferences, last_input,
          asked_questions, st_error, outcome, branch, attempts, response,
          extracted, button, user_input, calls, probe_in, probe_out>>

probe == <<probe_in, probe_out>>

session == <<chat_history, user_preferences, last_input, asked_questions>>

Init ==
  /\ api_key \in BOOLEAN
  /\ model = FALSE
  /\ chat_history = <<>>
  /\ user_preferences = InitialPreferences
  /\ last_input = <<>>
  /\ asked_questions = {}
  /\ st_error = "none"
  /\ outcome = "start"
  /\ branch = "none"
  /\ attempts = 0
  /\ response = NoResponse
  /\ extracted = NoPrefs
  /\ button = FALSE
  /\ user_input = <<>>
  /\ calls = <<>>
  /\ probe_in = <<>>
  /\ probe_out = NoPrefs

\* initialize_gemini without the test for the API key.
initialize_gemini_nokey(key, o) ==
  IF o.raises THEN [model |-> FALSE, attempts |-> 1,
                    error |-> "Error testing Gemini API connection"]
  ELSE IF o.text = <<>> THEN [model |-> FALSE, attempts |-> 1,
                              error |-> "Could not get a valid response from Gemini API."]
  ELSE [model |-> TRUE, attempts |-> 1, error |-> "none"]

\* initialize_gemini, given the outcome of its test call: the model or
\* False, and the st.error shown.
initialize_gemini(key, o) ==
  IF ~key THEN [model |-> FALSE, attempts |-> 0,
                error |-> "API key not found. Please check your .env file."]
  ELSE IF o.raises THEN [model |-> FALSE, attempts |-> 1,
                         error |-> "Error testing Gemini API connection"]
  ELSE IF o.text = <<>> THEN [model |-> FALSE, attempts |-> 1,
                              error |-> "Could not get a valid response from Gemini API."]
  ELSE [model |-> TRUE, attempts |-> 1, error |-> "none"]

\* A script run of a session without a model: main() initialises Gemini and
\* stops if that fails; otherwise it stores the model and renders the page
\* (the text input is still empty).
Startup(o) ==
  /\ ~model
  /\ LET r == initialize_gemini(api_key, o)
     IN /\ model' = r.model
        /\ st_error' = r.error
        /\ attempts' = r.attempts
        /\ outcome' = IF r.model THEN "rendered" ELSE "stopped"
        /\ button' = (r.model /\ RequiredComplete(user_preferences))
  /\ branch' = "none"
  /\ response' = NoResponse
  /\ extracted' = NoPrefs
  /\ user_input' = <<>>
  /\ calls' = <<>>
  /\ UNCHANGED <<api_key, session, probe>>

\* The test without the comparison with the last input.
NewInput_nomemo(u, last) == u # <<>>

\* if user_input and user_input != st.session_state.last_input
NewInput(u, last) == u # <<>> /\ u # last

\* A script run whose text input is empty or was already processed: the
\* turn is skipped and the page is rendered.
Rerender(u) ==
  /\ model
  /\ ~NewInput(u, last_input)
  /\ user_input' = u
  /\ calls' = <<>>
  /\ st_error' = "none"
  /\ outcome' = "rendered"
  /\ branch' = "none"
  /\ attempts' = 0
  /\ response' = NoResponse
  /\ extracted' = NoPrefs
  /\ button' = RequiredComplete(user_preferences)
  /\ UNCHANGED <<api_key, model, session, probe>>

\* The intent turn that, after generating, also runs extraction on the
\* utterance.
IntentTurn_reextract(u, outs) ==
  LET h == Append(chat_history, UserMsg(u))
  IN IF RequiredComplete(user_preferences)
     THEN LET r == get_ai_response(outs)
              itinerary == generate_itinerary(r)
          IN /\ chat_history' =
                  h \o <<CreatingMsg,
                         ItineraryMsg(user_preferences["destination"], itinerary)>>
             /\ branch' = "generate"
             /\ calls' = <<"generate", "extract">>
             /\ response' = r
             /\ attempts' = r.attempts + 1
             /\ st_error' = r.error
     ELSE /\ chat_history' = Append(h, MissingMsg(user_preferences))
          /\ branch' = "missing"
          /\ calls' = <<>>
          /\ response' = NoResponse
          /\ attempts' = 0
          /\ st_error' = "none"

\* The turn for a new utterance that asks for the itinerary.
IntentTurn(u, outs) ==
  LET h == Append(chat_history, UserMsg(u))
  IN IF RequiredComplete(user_preferences)
     THEN LET r == get_ai_response(outs)
              itinerary == generate_itinerary(r)
          IN /\ chat_history' =
                  (IF itinerary # <<>>
                   THEN h \o <<CreatingMsg,
                               ItineraryMsg(user_preferences["destination"], itinerary)>>
                   ELSE Append(h, CreatingMsg))
             /\ branch' = "generate"
             /\ calls' = <<"generate">>
             /\ response' = r
             /\ attempts' = r.attempts
             /\ st_error' = r.error
     ELSE /\ chat_history' = Append(h, MissingMsg(user_preferences))
          /\ branch' = "missing"
          /\ calls' = <<>>
          /\ response' = NoResponse
          /\ attempts' = 0
          /\ st_error' = "none"

\* The reply with the two tests in the other order.
NextReply_swapped(next_question, preferences) ==
  IF RequiredComplete(preferences)
  THEN <<ConfirmMsg(preferences["destination"])>>
  ELSE IF next_question # None THEN <<QuestionMsg(next_question)>>
  ELSE <<>>

\* The assistant messages an extraction turn appends: the next question,
\* or else the confirmation when the required slots are set, or nothing.
NextReply(next_question, preferences) ==
  IF next_question # None THEN <<QuestionMsg(next_question)>>
  ELSE IF RequiredComplete(preferences)
  THEN <<ConfirmMsg(preferences["destination"])>>
  ELSE <<>>

\* A script run with a new, non-empty utterance: lines 238-286, then the
\* rerun that renders the page.  An extraction result that is truthy but
\* has no items() ends the run with the AttributeError, before the rerun.
UtteranceTurn(u, outs) ==
  /\ model
  /\ NewInput(u, last_input)
  /\ Len(chat_history) < MaxHistory
  /\ user_input' = u
  /\ last_input' = u
  /\ IF WantsItinerary(u)
     THEN /\ IntentTurn(u, outs)
          /\ extracted' = NoPrefs
          /\ outcome' = "rerun"
          /\ button' = RequiredComplete(user_preferences)
          /\ UNCHANGED <<user_preferences, asked_questions>>
     ELSE LET h == Append(chat_history, UserMsg(u))
              r == get_ai_response(outs)
              prefs == extract_preferences(r)
          IN /\ branch' = "extract"
             /\ calls' = <<"extract">>
             /\ response' = r
             /\ attempts' = r.attempts
             /\ st_error' = r.error
             /\ extracted' = prefs
             /\ IF prefs.truthy /\ prefs.type # "dict"
                THEN /\ outcome' = "exception"
                     /\ chat_history' = h
                     /\ button' = FALSE
                     /\ UNCHANGED <<user_preferences, asked_questions>>
                ELSE LET merged == IF prefs.truthy
                                   THEN Merge(user_preferences, prefs.items)
                                   ELSE user_preferences
                         next == get_next_question(merged, asked_questions)
                     IN /\ outcome' = "rerun"
                        /\ user_preferences' = merged
                        /\ asked_questions' = next.asked
                        /\ button' = RequiredComplete(merged)
                        /\ chat_history' = h \o NextReply(next.question, merged)
  /\ UNCHANGED <<api_key, model, probe>>

\* A script run in which the Generate button was clicked: the text input is
\* unchanged, so the turn is skipped, and lines 299-312 run.
ButtonClick(outs) ==
  /\ model
  /\ button
  /\ Len(chat_history) < MaxHistory
  /\ RequiredComplete(user_preferences)
  /\ LET r == get_ai_response(outs)
         itinerary == generate_itinerary(r)
     IN /\ chat_history' =
             (IF itinerary # <<>>
              THEN chat_history \o
                     <<CreatingMsg,
                       ItineraryMsg(user_preferences["destination"], itinerary)>>
              ELSE Append(chat_history, CreatingMsg))
        /\ response' = r
        /\ attempts' = r.attempts
        /\ st_error' = r.error
  /\ branch' = "button"
  /\ calls' = <<"generate">>
  /\ outcome' = "rendered"
  /\ extracted' = NoPrefs
  /\ button' = TRUE
  /\ UNCHANGED <<api_key, model, user_preferences, last_input, asked_questions,
                 user_input, probe>>

Next ==
  \/ \E o \in Outcomes : Startup(o)
  \/ \E u \in Utterances : Rerender(u)
  \/ \E u \in Utterances, outs \in AttemptSeqs : UtteranceTurn(u, outs)
  \/ \E outs \in AttemptSeqs : ButtonClick(outs)

Spec == Init /\ [][Next]_vars

\* ------------------------------------------- the two calls on their own
\* The slot maps among the documents.
SlotMaps == {"D_goa", "D_paris", "D_trip", "D_stay", "D_empty"}

\* A slot map between an opening fence, with or without the json tag, and
\* a closing fence, with or without whitespace around the map.
Fenced(d, tagged, padded) ==
  (IF tagged THEN <<FENCE, TAG>> ELSE <<FENCE>>)
    \o (IF padded THEN <<WS, d, WS>> ELSE <<d>>)
    \o <<FENCE>>

FencedTexts ==
  {Fenced(d, t, p) : d \in SlotMaps, t \in BOOLEAN, p \in BOOLEAN}

\* The attempt outcomes a call made on its own is given.
ProbeInputs ==
  { <<a, b, c>> :
      a \in Outcomes \cup {[raises |-> FALSE, text |-> t] : t \in FencedTexts},
      b \in Outcomes, c \in Outcomes }

\* The same attempt outcomes, their texts without the fence markers.
WithoutFences(outs) ==
  [i \in 1..3 |->
     [outs[i] EXCEPT !.text = SelectSeq(@, LAMBDA x : x \notin {FENCE, TAG})]]

InitProbe ==
  /\ api_key = TRUE
  /\ model = TRUE
  /\ chat_history = <<>>
  /\ user_preferences = InitialPreferences
  /\ last_input = <<>>
  /\ asked_questions = {}
  /\ st_error = "none"
  /\ outcome = "start"
  /\ branch = "none"
  /\ attempts = 0
  /\ response = NoResponse
  /\ extracted = NoPrefs
  /\ button = FALSE
  /\ user_input = <<>>
  /\ calls = <<>>
  /\ probe_in \in ProbeInputs
  /\ probe_out = NoPrefs

\* get_ai_response run on the given attempt outcomes.
ProbeAi ==
  /\ outcome = "start"
  /\ LET r == get_ai_response(probe_in)
     IN /\ response' = r
        /\ attempts' = r.attempts
        /\ st_error' = r.error
  /\ outcome' = "called"
  /\ UNCHANGED <<api_key, model, session, branch, extracted, button,
                 user_input, calls, probe>>

\* The rest of extract_preferences run on that response, and the whole of
\* it run on the same outcomes without the fence markers.
ProbeExtract ==
  /\ outcome = "called"
  /\ extracted' = extract_preferences(response)
  /\ probe_out' = extract_preferences(get_ai_response(WithoutFences(probe_in)))
  /\ outcome' = "extracted"
  /\ UNCHANGED <<api_key, model, session, st_error, branch, attempts, response,
                 button, user_input, calls, probe_in>>

NextProbe == ProbeAi \/ ProbeExtract

SpecProbe == InitProbe /\ [][NextProbe]_vars

\* ============================================================== properties
Last(h) == h[Len(h)]

\* The step is a turn for a new utterance (every turn records its input).
TurnTaken == last_input' # last_input

\* The step is a turn that ran extraction and merged its result (or had
\* nothing to merge), then chose the next question.
ExtractionTurn == TurnTaken /\ branch' = "extract" /\ outcome' = "rerun"

\* The four required slots, spelled out.
FourRequired == {"budget", "duration", "destination", "starting_location"}

\* The position of a field in the fixed question order.
OrderOf(k) ==
  CASE k = "budget" -> 1
    [] k = "duration" -> 2
    [] k = "destination" -> 3
    [] k = "starting_location" -> 4
    [] k = "purpose" -> 5
    [] k = "preferences" -> 6
    [] k = "accommodation_preferences" -> 7
    [] k = "dietary_restrictions" -> 8
    [] OTHER -> 9

\* The slots whose question the step appended to the chat.
AskedNow ==
  {k \in Slots : /\ Len(chat_history') > Len(chat_history)
                 /\ Last(chat_history').role = "assistant"
                 /\ Last(chat_history').content = <<questions[k]>>}

\* C1: whenever a merge of extracted preferences changes destination, the
\* asked-questions set is empty right after the merge, so that after the
\* turn it holds at most the slot whose question the turn then asked.
C1_DestinationChangeClearsAsked ==
  [][(ExtractionTurn /\ user_preferences'["destination"] # user_preferences["destination"])
       => asked_questions' = AskedNow]_vars

\* C2: in every reachable session state no slot holds an empty sequence.
C2_NoEmptySequence ==
  \A k \in Slots : user_preferences[k] # EmptyList

\* C3: each extraction turn asks the question of the first slot, in the
\* fixed order, that holds no value (absent or empty) and is not yet in the
\* asked set, and asks nothing only when there is no such slot.
C3_FirstUnfilledUnaskedIsAsked ==
  [][ExtractionTurn =>
       LET open == {k \in Slots : /\ user_preferences'[k] \in {None, EmptyList}
                                  /\ k \notin asked_questions}
       IN IF open = {} THEN AskedNow = {}
          ELSE AskedNow = {k \in open : \A j \in open : OrderOf(k) <= OrderOf(j)}]_vars

\* C4: the question a turn asks is never that of a slot already in the
\* asked set, and the slot is in the asked set afterwards.
C4_AskedOnceAndMarked ==
  [][\A k \in AskedNow : k \notin asked_questions /\ k \in asked_questions']_vars

C4_Witness ==
  /\ branch = "extract"
  /\ Cardinality(asked_questions) >= 2
  /\ \E k \in asked_questions : Last(chat_history).content = <<questions[k]>>

\* The response of the extraction call is a failure: no text, or text that,
\* fences removed, is not one JSON document.
ExtractionFailed(r) ==
  \/ ~r.ok
  \/ r.text = <<>>
  \/ LET t == Strip(r.raw)
         a == IF Len(t) >= 2 /\ t[1] = FENCE /\ t[2] = TAG
              THEN SubSeq(t, 3, Len(t)) ELSE t
         b == IF a # <<>> /\ a[Len(a)] = FENCE
              THEN SubSeq(a, 1, Len(a) - 1) ELSE a
         c == SelectSeq(b, LAMBDA x : x # WS)
     IN ~(Len(c) = 1 /\ c[1] \in JsonDocs /\ FENCE \notin {b[i] : i \in 1..Len(b)})

\* The first slot, in the fixed order, that is None and not asked; {} when
\* there is none.
FirstMissing(preferences, asked) ==
  LET open == {k \in Slots : preferences[k] = None /\ k \notin asked}
  IN {k \in open : \A j \in open : OrderOf(k) <= OrderOf(j)}

\* C5: when the extraction call of a turn fails, every slot keeps its value
\* and the turn asks exactly the question get_next_question selects for the
\* store and asked set as they were before the utterance.
C5_FailedExtractionKeepsStoreAndAsks ==
  [][(TurnTaken /\ branch' = "extract" /\ ExtractionFailed(response'))
       => /\ user_preferences' = user_preferences
          /\ outcome' = "rerun"
          /\ AskedNow = FirstMissing(user_preferences, asked_questions)
          /\ asked_questions' = asked_questions \cup AskedNow
          /\ Len(chat_history') >= Len(chat_history) + 1
          /\ chat_history'[Len(chat_history) + 1] = [role |-> "user", content |-> last_input']]_vars

C5_Witness ==
  /\ branch = "extract"
  /\ response.ok /\ ExtractionFailed(response)
  /\ asked_questions # {}
  /\ Last(chat_history).role = "assistant"
  /\ \E k \in Slots : user_preferences[k] \notin {None, EmptyList}

\* The step is a script run that requested itinerary generation with the
\* required slots set: an intent-word turn or a click of the button.
GenerationStep ==
  \/ TurnTaken /\ branch' = "generate"
  \/ branch' = "button" /\ chat_history' # chat_history

\* The assistant messages a generation request appends: the announcement,
\* then the given text under the header naming the destination.
GenerationReply(destination, text) ==
  << [role |-> "assistant", content |-> <<"I'll create your itinerary now...">>],
     [role |-> "assistant",
      content |-> <<"Here's your personalized itinerary for ", destination, ":\n\n">>
                    \o text] >>

\* The messages the step appended to the chat.
Appended == SubSeq(chat_history', Len(chat_history) + 1, Len(chat_history'))

\* C6: when generation is requested with the required slots set and every
\* one of the 3 model attempts fails, the text generate_itinerary returns is
\* the fixed apology, the store and the asked set are unchanged, and the
\* session stays ready to plan: the required slots are set and the generate
\* action is offered.
C6_FailedGenerationApologisesAndStaysReady ==
  [][(GenerationStep /\ ~response'.ok)
       => /\ attempts' = 3
          /\ \E n \in {0, 1} :
               SubSeq(Appended, n + 1, Len(Appended)) =
                 GenerationReply(user_preferences["destination"],
                   <<"I apologize, but I couldn't generate the itinerary. Please try again.">>)
          /\ user_preferences' = user_preferences
          /\ asked_questions' = asked_questions
          /\ \A k \in FourRequired : user_preferences'[k] # None
          /\ outcome' # "exception"
          /\ button']_vars

\* A failed generation was followed by a later request that called the model.
C6_Witness ==
  /\ branch = "button" /\ attempts >= 1
  /\ \E i \in 1..Len(chat_history) : \E j \in (i + 1)..Len(chat_history) :
       /\ Len(chat_history[i].content) = 4
       /\ chat_history[i].content[4] = Apology[1]
       /\ chat_history[j] = CreatingMsg

\* C7 as stated: an intent-word utterance with the four required slots set
\* runs generation, and when the model returns text that text is appended
\* unchanged under the header naming the destination.
C7_ModelTextAppendedUnchanged ==
  [][(TurnTaken /\ WantsItinerary(last_input')
        /\ \A k \in FourRequired : user_preferences[k] # None)
       => /\ branch' = "generate"
          /\ attempts' >= 1
          /\ response'.ok =>
               Appended = <<[role |-> "user", content |-> last_input']>>
                            \o GenerationReply(user_preferences["destination"],
                                               response'.raw)]_vars

\* C7 amended: the text is appended with its leading and trailing
\* whitespace removed, when anything remains.
C7_StrippedTextAppended ==
  [][(TurnTaken /\ WantsItinerary(last_input')
        /\ \A k \in FourRequired : user_preferences[k] # None)
       => /\ branch' = "generate"
          /\ attempts' >= 1
          /\ (response'.ok /\ Strip(response'.raw) # <<>>) =>
               Appended = <<[role |-> "user", content |-> last_input']>>
                            \o GenerationReply(user_preferences["destination"],
                                               Strip(response'.raw))]_vars

C7_Witness ==
  /\ branch = "generate"
  /\ response.ok /\ response.raw # Strip(response.raw) /\ Strip(response.raw) # <<>>
  /\ Last(chat_history).content =
       <<"Here's your personalized itinerary for ", user_preferences["destination"], ":\n\n">>
         \o Strip(response.raw)

\* C8: an intent-word utterance while a required slot is unset makes no
\* model call, leaves the store unchanged, and appends one assistant message
\* that names exactly the required slots that are unset.
C8_MissingListIsExact ==
  [][(TurnTaken /\ WantsItinerary(last_input')
        /\ \E k \in FourRequired : user_preferences[k] = None)
       => /\ attempts' = 0
          /\ response' = NoResponse
          /\ user_preferences' = user_preferences
          /\ Len(Appended) = 2
          /\ Appended[1] = [role |-> "user", content |-> last_input']
          /\ Appended[2].role = "assistant"
          /\ LET c == Appended[2].content
                 unset == {k \in FourRequired : user_preferences[k] = None}
             IN /\ {c[i] : i \in 2..Len(c)} =
                     {CASE k = "budget" -> "Budget"
                        [] k = "duration" -> "Duration"
                        [] k = "destination" -> "Destination"
                        [] OTHER -> "Starting Location" : k \in unset}
                /\ Len(c) = 1 + Cardinality(unset)]_vars

C8_Witness ==
  /\ branch = "missing"
  /\ Last(chat_history).content =
       <<"I still need some essential information before I can create your itinerary: ",
         "Duration", "Starting Location">>
  /\ user_preferences["budget"] # None /\ user_preferences["destination"] # None

\* C9: whenever the four required slots are set, whatever the other five
\* hold, an intent-word utterance starts generation, and every page render
\* offers the generate action.
C9_FourRequiredSuffice ==
  [][/\ (TurnTaken /\ WantsItinerary(last_input')
           /\ \A k \in FourRequired : user_preferences[k] # None)
          => /\ branch' = "generate"
             /\ Len(Appended) >= 2
             /\ Appended[2].content = <<"I'll create your itinerary now...">>
             /\ attempts' >= 1
     /\ (outcome' \in {"rerun", "rendered"}
           /\ \A k \in FourRequired : user_preferences'[k] # None)
          => button']_vars

C9_Witness ==
  /\ branch = "generate" /\ button
  /\ user_preferences["purpose"] = None
  /\ user_preferences["preferences"] = EmptyList
  /\ user_preferences["dietary_restrictions"] \notin {None, EmptyList}

\* C10: no outcome of a model call makes an exception propagate out of the
\* turn handler.
C10_NoExceptionEscapes ==
  outcome # "exception"

\* The extraction call of the step gave a result that was merged: one JSON
\* document that is a non-empty dict.
ExtractionMerged ==
  /\ TurnTaken /\ branch' = "extract"
  /\ ~ExtractionFailed(response')
  /\ extracted'.type = "dict" /\ extracted'.truthy

\* C11: the store changes only in a turn that merges an extraction result,
\* a slot that is set never becomes absent again, and the generation branch,
\* the missing-slots branch and a failed extraction leave every slot as it
\* was.
C11_StoreChangesOnlyByMerge ==
  [][/\ user_preferences' # user_preferences => ExtractionMerged
     /\ \A k \in DOMAIN user_preferences :
          /\ k \in DOMAIN user_preferences'
          /\ user_preferences[k] # None => user_preferences'[k] # None
     /\ (\/ branch' \in {"generate", "missing", "button"}
         \/ branch' = "extract" /\ ExtractionFailed(response'))
          => user_preferences' = user_preferences]_vars

\* A merge met a null for a slot that was set, and the slot kept its value.
C11_Witness ==
  /\ branch = "extract" /\ extracted.type = "dict"
  /\ "budget" \in DOMAIN extracted.items
  /\ extracted.items["budget"] = None
  /\ user_preferences["budget"] = "$500"

\* C12: a merge overwrites exactly the slots whose key is in the extraction
\* result with a non-null value and leaves every other slot unchanged, also
\* when the merge changes destination.
C12_MergeOverwritesExactlyGivenSlots ==
  [][(ExtractionTurn /\ extracted'.truthy)
       => \A k \in Slots :
            IF k \in DOMAIN extracted'.items /\ extracted'.items[k] # None
            THEN user_preferences'[k] = extracted'.items[k]
            ELSE user_preferences'[k] = user_preferences[k]]_vars

\* A merge changed destination and purpose, not named in it, carried over.
C12_Witness ==
  /\ branch = "extract" /\ extracted.type = "dict"
  /\ "destination" \in DOMAIN extracted.items
  /\ "purpose" \notin DOMAIN extracted.items
  /\ user_preferences["destination"] = "Paris"
  /\ user_preferences["purpose"] = "fun"
  /\ user_preferences["preferences"] = EmptyList

\* The step appended the confirmation naming the destination.
ConfirmAppended ==
  /\ Len(Appended) = 2
  /\ Appended[2] =
       [role |-> "assistant",
        content |-> <<"Great! I have all the essential information about your trip to ",
                      user_preferences'["destination"],
                      ". Type 'create itinerary' and I'll generate a detailed plan for you.">>]

\* C13: in a turn that runs extraction the confirmation is appended exactly
\* when get_next_question returns nothing and the four required slots are
\* set; never while a required slot is unset, nor in a turn that asked a
\* question.
C13_ConfirmationExactlyWhenDone ==
  [][(TurnTaken /\ branch' = "extract")
       => /\ ConfirmAppended <=>
               /\ outcome' = "rerun"
               /\ FirstMissing(user_preferences', asked_questions) = {}
               /\ \A k \in FourRequired : user_preferences'[k] # None
          /\ ConfirmAppended => AskedNow = {} /\ asked_questions' = asked_questions]_vars

C13_Witness ==
  /\ branch = "extract"
  /\ Last(chat_history).content[1] =
       "Great! I have all the essential information about your trip to "
  /\ Last(chat_history).content[2] = user_preferences["destination"]
  /\ asked_questions # {}

\* The attempts, of those given to the call, that yield non-empty text.
WithText == {i \in 1..3 : ~probe_in[i].raises /\ probe_in[i].text # <<>>}

\* C14 as stated: get_ai_response makes at most 3 attempts, returns the text
\* of the first attempt that yields non-empty text without a further
\* attempt, and returns no result after the third attempt when none does.
C14_ReturnsFirstTextWithinThree ==
  outcome # "start" =>
    /\ attempts <= 3
    /\ IF WithText = {} THEN ~response.ok /\ attempts = 3
       ELSE LET i == CHOOSE j \in WithText : \A m \in WithText : j <= m
            IN response.ok /\ attempts = i /\ response.text = probe_in[i].text

\* C14 amended: the text is returned with its leading and trailing
\* whitespace removed.
C14_ReturnsFirstTextStripped ==
  outcome # "start" =>
    /\ attempts <= 3
    /\ IF WithText = {} THEN ~response.ok /\ attempts = 3
       ELSE LET i == CHOOSE j \in WithText : \A m \in WithText : j <= m
            IN /\ response.ok /\ attempts = i
               /\ response.text = Strip(probe_in[i].text)

\* The third attempt decided the call, and its text lost its whitespace.
C14_Witness ==
  /\ outcome = "called" /\ attempts = 3 /\ response.ok
  /\ probe_in[1].raises /\ probe_in[2].text = <<>>
  /\ response.text # probe_in[3].text
  /\ response.text = <<"Day 1: arrive">>

\* The text that decided the call made on its own.
ProbeText == IF WithText = {} THEN <<>>
             ELSE probe_in[CHOOSE j \in WithText : \A m \in WithText : j <= m].text

\* C17: for every slot map, a response that is the slot map between an
\* opening fence, with or without the json tag, and a closing fence yields
\* the same extraction result as the slot map on its own.
C17_FencedSlotMapExtractsAsUnfenced ==
  (outcome = "extracted" /\ ProbeText \in FencedTexts) => extracted = probe_out

\* C15: processing one utterance makes at most two get_ai_response calls,
\* one after the other: an extraction call first, then possibly a
\* generation call; each call makes at most 3 attempts.
C15_AtMostTwoCallsInOrder ==
  [][TurnTaken =>
       /\ calls' \in {<<>>, <<"extract">>, <<"generate">>, <<"extract", "generate">>}
       /\ Len(calls') <= 2
       /\ attempts' <= 3 * Len(calls')
       /\ calls' # <<>> => attempts' >= Len(calls')]_vars

\* Turns of each kind were taken: one with an extraction call that used all
\* three attempts.
C15_Witness ==
  /\ branch = "extract" /\ calls = <<"extract">> /\ attempts = 3
  /\ \E i \in 1..Len(chat_history) :
       chat_history[i].content = <<"I'll create your itinerary now...">>

\* C16: when the API key is absent, initialisation shows the error and the
\* run stops: no model is stored and no utterance is ever processed.
C16_NoKeyNoSession ==
  ~api_key =>
    /\ ~model
    /\ chat_history = <<>>
    /\ user_preferences =
         [k \in Slots |-> IF k \in {"preferences", "dietary_restrictions"}
                          THEN "[]" ELSE "null"]
    /\ asked_questions = {}
    /\ last_input = <<>>
    /\ attempts = 0 /\ calls = <<>>
    /\ outcome \in {"start", "stopped"}
    /\ outcome = "stopped" =>
         st_error = "API key not found. Please check your .env file."

C16_Witness ==
  /\ ~api_key /\ outcome = "stopped" /\ ~model
  /\ st_error = "API key not found. Please check your .env file."

\* C18: every turn that appends a user message appends at least one
\* assistant message after it.
C18_EveryUtteranceGetsReply ==
  [][TurnTaken =>
       /\ Len(Appended) >= 2
       /\ Appended[1] = [role |-> "user", content |-> last_input']
       /\ Appended[Len(Appended)].role = "assistant"]_vars

\* C19: a message with the itinerary header is appended only when the
\* generation call returned text.
C19_HeaderOnlyWithModelText ==
  [][(GenerationStep
        /\ \E i \in 1..Len(Appended) :
             /\ Appended[i].role = "assistant"
             /\ Appended[i].content[1] = "Here's your personalized itinerary for ")
       => response'.ok /\ response'.text # <<>>]_vars

====
